---- MODULE Spec2Model ----
(***************************************************************************)
(* Model of HomeFeed.browse (feedscraper/feed.py): the generator that      *)
(* walks the post positions of a lazily rendered feed with a nested        *)
(* scroll-retry / load-retry loop.                                         *)
(*                                                                         *)
(* One step of the model is the code the generator runs between two        *)
(* interactions with its surroundings: a lookup in the document            *)
(* (find_element, extractors.post_el) whose result the page decides, or a  *)
(* yield, after which the consumer decides when (and whether) to resume.   *)
(***************************************************************************)
EXTENDS Integers, Sequences, FiniteSets

\* ---------------------------------------------------------------- bounds
\* Positions above MaxItems never hold an element (the feed is finite).
MaxItems == 3
\* Most sidebar ad elements rendered at once.
MaxAds == 2
\* Longest text of a sidebar ad element, in characters.
MaxTextLen == 3

\* ------------------------------------------------------------- constants
\* while scroll_fail_count < 10
ScrollFailLimit == 10
\* while load_fail_count < 10
LoadFailLimit == 10

\* A local of the generator frame that no assignment has bound yet.
Unbound == -1

VARIABLES
    pc,                 \* where the generator frame stands
    i,                  \* post index (XPath index, from 1)
    scroll_fail_count,  \* times scrolled to the bottom without finding a post
    load_fail_count,    \* re-probes failed inside the current scroll cycle
    scroll_pos,         \* the window's scroll position (shared by the session)
    signal,             \* what the last advance handed to the consumer
    other,              \* the frame of a second, suspended browse generator
    first_post,         \* the lowest position of the feed that holds a post
    ads_text,           \* the texts of the rendered sidebar ad elements
    ads_result,         \* what get_sidebar_ads handed to its caller
    emitted,            \* history: positions of the records yielded, in order
    skipped,            \* history: positions given up after all load retries
    scroll_count,       \* history: number of scroll_to_bottom calls
    probe_count,        \* history: number of extractors.post_el lookups
    probes_here,        \* history: lookups made at the current position
    via,                \* history: how the last record was found
    run_emits,          \* history: records yielded since the scroll cycle
                        \*          that took scroll_fail_count from 0 to 1
    scenario,           \* history: shape of the probe results so far
    dry_scrolls,        \* history: scroll_to_bottom calls since the last
                        \*          lookup that found its post
    record,             \* history: the record handed over by the last yield
    seen                \* history: what the last lookup met in the document

vars == <<pc, i, scroll_fail_count, load_fail_count, scroll_pos, signal,
          other, first_post, ads_text, ads_result,
          emitted, skipped, scroll_count, probe_count, probes_here, via,
          run_emits, scenario, dry_scrolls, record, seen>>

\* The history variables: written by the actions, read by no guard.
hist == <<emitted, skipped, scroll_count, probe_count, probes_here, via,
          run_emits, scenario, dry_scrolls, record, seen>>

\* The sidebar: no step of browse reads or writes it.
ads == <<ads_text, ads_result>>

\* --------------------------------------------------------------- helpers
\* The exception a failed lookup raises (selenium's find_element).
LookupError == "NoSuchElementException"

ExitSignalReturn == "StopIteration"

\* exit(1) in the handler of the feed-container lookup raises SystemExit.
ExitSignal == "SystemExit"

OuterExceptOther(exc) == exc = "TimeoutException"

\* except NoSuchElementException (outer try, around the first probe)
OuterExcept(exc) == exc = "NoSuchElementException"

InnerExceptOther(exc) == exc = "TimeoutException"

\* except NoSuchElementException (inner try, around a load retry)
InnerExcept(exc) == exc = "NoSuchElementException"

OuterWhileInclusive(sfc) == sfc <= ScrollFailLimit

OuterWhileOnce(sfc) == sfc < 1

\* while scroll_fail_count < 10
OuterWhile(sfc) == sfc < ScrollFailLimit

InnerWhileInclusive(lfc) == lfc <= LoadFailLimit

\* while load_fail_count < 10
InnerWhile(lfc) == lfc < LoadFailLimit

FinallyTwice(pos) == pos + 2

FinallyStuck(pos) == pos

\* finally: i += 1
Finally(pos) == pos + 1

\* scroll_fail_count += 1 (first line of the outer handler)
BumpScrollFail(sfc) == sfc + 1

\* load_fail_count += 1 (inner handler)
BumpLoadFail(lfc) == lfc + 1

ResetLoadOnly(sfc, lfc) == <<sfc, 0>>

ResetNothing(sfc, lfc) == <<sfc, lfc>>

\* scroll_fail_count = 0 ; load_fail_count = 0 after the inner yield
\* (the <<scroll, load>> pair the retry branch leaves behind)
ResetAfterRetryHit(sfc, lfc) == <<0, 0>>

\* The outer yield is followed by no assignment: the counters stay.
KeepAfterFirstHit(sfc, lfc) == <<sfc, lfc>>

\* Back at the head of the outer while after an iteration.
LoopHead(sfc) == IF OuterWhile(sfc) THEN "Probing" ELSE "Exhausted"

\* What the consumer gets when the generator frame reaches pc.
SignalAt(p, old) == IF p = "Exhausted" THEN "StopIteration" ELSE old

\* History: the probe results so far are "found at its first probe" for
\* the positions 1..n and nothing else (shape "prefix"), the same followed
\* only by "not found" (shape "tail"), or anything else (shape "mixed").
ScenarioAfter(sc, found, first) ==
    IF found
    THEN IF sc.shape = "prefix" /\ first
         THEN [shape |-> "prefix", n |-> sc.n + 1]
         ELSE [shape |-> "mixed", n |-> 0]
    ELSE IF sc.shape = "mixed"
         THEN sc
         ELSE [shape |-> "tail", n |-> sc.n]

ScrollToTopNoop(pos) == pos

\* scroll_to_top: scroll_to_pos(1)
ScrollToTop(pos) == "top"

\* scroll_to_bottom: scroll_to_pos('document.body.scrollHeight')
ScrollToBottom(pos) == "bottom"

\* ----------------------------------------------------------- the document
\* Where the posts of the feed container start: at its first child, or
\* behind nine children that are no posts.
FirstPosts == {1, 10}

\* extractors.post_el(feed_el, pos) can find an element: the feed holds at
\* most MaxItems posts, at consecutive positions from first_post on.
Renderable(pos) == first_post <= pos /\ pos < first_post + MaxItems

\* ------------------------------------------------------------ materialize
\* The Field identifiers a record can hold.
FieldSet == {"author", "text"}

\* fields = list(Field) if fields is None else fields
RequestedFields == FieldSet

\* No record in the consumer's hands.
NoRecord == [present |-> FALSE, fields |-> {}]

\* No post element met by a lookup the consumer has not resumed from.
NoPost == [found |-> FALSE, available |-> {}]

MaterializeStrict(available, requested) ==
    [exc    |-> IF requested \subseteq available THEN "none"
                ELSE "NoSuchElementException",
     fields |-> requested \cap available]

\* Post.from_home_element(feed, subtree, fields): every requested field whose
\* extractor finds its sub-element is in the record, the others are absent;
\* no extractor failure leaves the call.
Materialize(available, requested) ==
    [exc |-> "none", fields |-> requested \cap available]

\* What the yield expression of a probe raises: the failed lookup of the
\* post element, or whatever building the Post raised.
Raised(found, post) == IF found THEN post.exc ELSE LookupError

\* ----------------------------------------------------------------- frames
\* The locals of one generator frame.
Frame(p, pos, sfc, lfc, sig) ==
    [pc |-> p, i |-> pos, scroll_fail_count |-> sfc,
     load_fail_count |-> lfc, signal |-> sig]

\* The frame of a generator object no line of which has run.
FreshFrame == Frame("Created", Unbound, Unbound, Unbound, "none")

\* No second generator exists.
NoFrame == Frame("NoFrame", Unbound, Unbound, Unbound, "none")

\* The frame of the generator being advanced.
ActiveFrame ==
    Frame(pc, i, scroll_fail_count, load_fail_count, signal)

ResumedSharedIndex(f, cur) == [f EXCEPT !.i = cur.i]

\* The frame a suspended generator is resumed with, cur being the frame of
\* the generator advanced meanwhile: its own locals, as it left them.
Resumed(f, cur) == f

\* The generator is suspended or finished: the consumer has control.
AtConsumer ==
    pc \in {"Created", "YieldedOuter", "YieldedInner", "Exhausted",
            "Aborted", "Failed"}

\* ------------------------------------------------------------------ Init
\* browse() was called: the generator object exists, no line has run.
Init ==
    /\ pc = "Created"
    /\ i = Unbound
    /\ scroll_fail_count = Unbound
    /\ load_fail_count = Unbound
    /\ scroll_pos = "initial"
    /\ signal = "none"
    /\ other = NoFrame
    /\ first_post \in FirstPosts
    /\ ads_text = <<>>
    /\ ads_result = [status |-> "not called", list |-> <<>>]
    /\ emitted = <<>>
    /\ skipped = {}
    /\ scroll_count = 0
    /\ probe_count = 0
    /\ probes_here = 0
    /\ via = <<"none", 0>>
    /\ run_emits = 0
    /\ scenario = [shape |-> "prefix", n |-> 0]
    /\ dry_scrolls = 0
    /\ record = NoRecord
    /\ seen = NoPost

\* ------------------------------------------------- the code of each step
\* First advance: scroll_to_top, look the feed container up, bind the
\* locals and test the outer while.
StartCode(feed_present) ==
    /\ scroll_pos' = ScrollToTop(scroll_pos)
    /\ IF feed_present
       THEN /\ i' = 1
            /\ scroll_fail_count' = 0
            /\ pc' = LoopHead(scroll_fail_count')
            /\ signal' = SignalAt(pc', signal)
       ELSE \* except NoSuchElementException: ... exit(1)
            /\ pc' = "Aborted"
            /\ signal' = ExitSignal
            /\ UNCHANGED <<i, scroll_fail_count>>
    /\ UNCHANGED load_fail_count

\* The outer try: yield Post.from_home_element(self, post_el(feed_el, i)),
\* its handler up to the head of the inner while, its finally clause.
FirstProbeCode(raised) ==
    IF raised = "none"
    THEN \* suspended at the outer yield
         /\ pc' = "YieldedOuter"
         /\ signal' = "record"
         /\ UNCHANGED <<i, scroll_fail_count, load_fail_count, scroll_pos>>
    ELSE IF OuterExcept(raised)
    THEN /\ scroll_fail_count' = BumpScrollFail(scroll_fail_count)
         /\ load_fail_count' = 0
         /\ scroll_pos' = ScrollToBottom(scroll_pos)
         /\ pc' = "LoadBackoff"
         /\ UNCHANGED <<i, signal>>
    ELSE \* not handled: the finally clause runs, the error leaves
         /\ i' = Finally(i)
         /\ pc' = "Failed"
         /\ signal' = raised
         /\ UNCHANGED <<scroll_fail_count, load_fail_count, scroll_pos>>

\* Resuming after the outer yield: nothing is assigned, the finally clause
\* runs and the outer while is tested.
ResumeOuterCode ==
    /\ scroll_fail_count' =
           KeepAfterFirstHit(scroll_fail_count, load_fail_count)[1]
    /\ load_fail_count' =
           KeepAfterFirstHit(scroll_fail_count, load_fail_count)[2]
    /\ i' = Finally(i)
    /\ pc' = LoopHead(scroll_fail_count')
    /\ signal' = SignalAt(pc', "none")
    /\ UNCHANGED scroll_pos

\* The inner try: yield Post.from_home_element(self, post_el(feed_el, i)),
\* its handler, and what follows the inner while when it is over.
LoadRetryCode(raised) ==
    /\ IF raised = "none"
       THEN \* suspended at the inner yield
            /\ pc' = "YieldedInner"
            /\ signal' = "record"
            /\ UNCHANGED <<i, scroll_fail_count, load_fail_count>>
       ELSE IF InnerExcept(raised)
       THEN /\ load_fail_count' = BumpLoadFail(load_fail_count)
            /\ IF InnerWhile(load_fail_count')
               THEN /\ pc' = "LoadBackoff"
                    /\ UNCHANGED <<i, signal>>
               ELSE \* inner while over: finally, then the outer test
                    /\ i' = Finally(i)
                    /\ pc' = LoopHead(scroll_fail_count)
                    /\ signal' = SignalAt(pc', signal)
            /\ UNCHANGED scroll_fail_count
       ELSE \* raised inside the outer handler: finally, then out
            /\ i' = Finally(i)
            /\ pc' = "Failed"
            /\ signal' = raised
            /\ UNCHANGED <<scroll_fail_count, load_fail_count>>
    /\ UNCHANGED scroll_pos

\* Resuming after the inner yield: both counters are zeroed, break leaves
\* the inner while, the finally clause runs and the outer while is tested.
ResumeInnerCode ==
    /\ scroll_fail_count' =
           ResetAfterRetryHit(scroll_fail_count, load_fail_count)[1]
    /\ load_fail_count' =
           ResetAfterRetryHit(scroll_fail_count, load_fail_count)[2]
    /\ i' = Finally(i)
    /\ pc' = LoopHead(scroll_fail_count')
    /\ signal' = SignalAt(pc', "none")
    /\ UNCHANGED scroll_pos

\* ------------------------------------------- what each step lets observe
FirstProbeHist(found, available, raised, post) ==
    /\ seen' = [found |-> found, available |-> available]
    /\ probe_count' = probe_count + 1
    /\ probes_here' = probes_here + 1
    /\ scenario' = ScenarioAfter(scenario, found, TRUE)
    /\ IF raised = "none"
       THEN /\ emitted' = Append(emitted, i)
            /\ via' = <<"first", 0>>
            /\ run_emits' = run_emits + 1
            /\ record' = [present |-> TRUE, fields |-> post.fields]
            /\ dry_scrolls' = 0
            /\ UNCHANGED scroll_count
       ELSE IF OuterExcept(raised)
       THEN /\ scroll_count' = scroll_count + 1
            /\ dry_scrolls' = IF found THEN 1 ELSE dry_scrolls + 1
            /\ run_emits' = IF scroll_fail_count = 0 THEN 0 ELSE run_emits
            /\ UNCHANGED <<emitted, via, record>>
       ELSE UNCHANGED <<scroll_count, dry_scrolls, run_emits, emitted, via,
                        record>>
    /\ UNCHANGED skipped

LoadRetryHist(found, available, raised, post) ==
    /\ seen' = [found |-> found, available |-> available]
    /\ probe_count' = probe_count + 1
    /\ scenario' = ScenarioAfter(scenario, found, FALSE)
    /\ dry_scrolls' = IF found THEN 0 ELSE dry_scrolls
    /\ IF raised = "none"
       THEN /\ emitted' = Append(emitted, i)
            /\ via' = <<"retry", load_fail_count>>
            /\ run_emits' = run_emits + 1
            /\ record' = [present |-> TRUE, fields |-> post.fields]
            /\ probes_here' = probes_here + 1
            /\ UNCHANGED skipped
       ELSE IF InnerExcept(raised) /\ ~InnerWhile(load_fail_count')
       THEN \* the position is given up
            /\ skipped' = skipped \cup {<<i, probes_here + 1>>}
            /\ probes_here' = 0
            /\ UNCHANGED <<emitted, via, run_emits, record>>
       ELSE /\ probes_here' = probes_here + 1
            /\ UNCHANGED <<skipped, emitted, via, run_emits, record>>
    /\ UNCHANGED scroll_count

\* The consumer took the record and resumed the generator.
ResumeHist ==
    /\ probes_here' = 0
    /\ record' = NoRecord
    /\ seen' = NoPost
    /\ UNCHANGED <<emitted, skipped, scroll_count, probe_count, via,
                   run_emits, scenario, dry_scrolls>>

\* --------------------------------------------------------------- actions
\* The first advance of the generator.
Start ==
    /\ pc = "Created"
    /\ \E feed_present \in BOOLEAN : StartCode(feed_present)
    /\ UNCHANGED <<hist, other, ads, first_post>>

\* extractors.post_el(feed_el, i) and Post.from_home_element in the outer
\* try.
FirstProbe ==
    /\ pc = "Probing"
    /\ \E found \in BOOLEAN, available \in SUBSET FieldSet :
         /\ found => Renderable(i)
         /\ ~found => available = {}
         /\ LET post == Materialize(available, RequestedFields)
                raised == Raised(found, post)
            IN  /\ FirstProbeCode(raised)
                /\ FirstProbeHist(found, available, raised, post)
    /\ UNCHANGED <<other, ads, first_post>>

\* The consumer resumes the generator after the outer yield.
ResumeOuter ==
    /\ pc = "YieldedOuter"
    /\ ResumeOuterCode
    /\ ResumeHist
    /\ UNCHANGED <<other, ads, first_post>>

\* extractors.post_el(feed_el, i) and Post.from_home_element in the inner
\* try.
LoadRetry ==
    /\ pc = "LoadBackoff"
    /\ \E found \in BOOLEAN, available \in SUBSET FieldSet :
         /\ found => Renderable(i)
         /\ ~found => available = {}
         /\ LET post == Materialize(available, RequestedFields)
                raised == Raised(found, post)
            IN  /\ LoadRetryCode(raised)
                /\ LoadRetryHist(found, available, raised, post)
    /\ UNCHANGED <<other, ads, first_post>>

\* The consumer resumes the generator after the inner yield.
ResumeInner ==
    /\ pc = "YieldedInner"
    /\ ResumeInnerCode
    /\ ResumeHist
    /\ UNCHANGED <<other, ads, first_post>>

Next ==
    \/ Start
    \/ FirstProbe
    \/ ResumeOuter
    \/ LoadRetry
    \/ ResumeInner

Spec == Init /\ [][Next]_vars

\* The generator runs on to its next yield, and the consumer keeps
\* advancing it (a harvest iterated to its end).
FairSpec ==
    /\ Spec
    /\ WF_vars(Start)
    /\ WF_vars(FirstProbe)
    /\ WF_vars(ResumeOuter)
    /\ WF_vars(LoadRetry)
    /\ WF_vars(ResumeInner)

\* ------------------------------------ two browse generators, one session
LoadFrame(f) ==
    /\ pc' = f.pc
    /\ i' = f.i
    /\ scroll_fail_count' = f.scroll_fail_count
    /\ load_fail_count' = f.load_fail_count
    /\ signal' = f.signal

\* browse() is called again on the same feed object: a new generator object
\* is created (no line of it runs), the one created before stays suspended
\* where it is.  A generator created earlier still is dropped.
Browse ==
    /\ AtConsumer
    /\ other' = ActiveFrame
    /\ LoadFrame(FreshFrame)
    /\ UNCHANGED <<scroll_pos, hist, ads, first_post>>

\* The consumer turns to the other generator: the one advanced so far stays
\* suspended at its yield, the other one is the one advanced from now on.
Switch ==
    /\ AtConsumer
    /\ other.pc # "NoFrame"
    /\ other' = ActiveFrame
    /\ LoadFrame(Resumed(other, ActiveFrame))
    /\ UNCHANGED <<scroll_pos, hist, ads, first_post>>

\* The steps of the generator being advanced; the observations of a single
\* harvest are not kept when two generators are interleaved.
DuoStart ==
    /\ pc = "Created"
    /\ \E feed_present \in BOOLEAN : StartCode(feed_present)
    /\ UNCHANGED <<hist, other, ads, first_post>>

DuoFirstProbe ==
    /\ pc = "Probing"
    /\ \E found \in BOOLEAN :
         /\ found => Renderable(i)
         /\ FirstProbeCode(Raised(found, Materialize({}, RequestedFields)))
    /\ UNCHANGED <<hist, other, ads, first_post>>

DuoResumeOuter ==
    /\ pc = "YieldedOuter"
    /\ ResumeOuterCode
    /\ UNCHANGED <<hist, other, ads, first_post>>

DuoLoadRetry ==
    /\ pc = "LoadBackoff"
    /\ \E found \in BOOLEAN :
         /\ found => Renderable(i)
         /\ LoadRetryCode(Raised(found, Materialize({}, RequestedFields)))
    /\ UNCHANGED <<hist, other, ads, first_post>>

DuoResumeInner ==
    /\ pc = "YieldedInner"
    /\ ResumeInnerCode
    /\ UNCHANGED <<hist, other, ads, first_post>>

DuoNext ==
    \/ DuoStart
    \/ DuoFirstProbe
    \/ DuoResumeOuter
    \/ DuoLoadRetry
    \/ DuoResumeInner
    \/ Browse
    \/ Switch

DuoSpec == Init /\ [][DuoNext]_vars

\* ------------------------------------------------------------ sidebar ads
\* The characters of an element's text: a letter and the line break.
Alphabet == {"a", "\n"}

SeqsUpTo(S, n) == UNION {[1..k -> S] : k \in 0..n}

\* Index of the first line break of text, 0 if it has none.
FirstBreak(text) ==
    IF \E k \in 1..Len(text) : text[k] = "\n"
    THEN CHOOSE k \in 1..Len(text) :
             text[k] = "\n" /\ \A j \in 1..(k - 1) : text[j] # "\n"
    ELSE 0

RECURSIVE splitlines(_)
\* str.splitlines: the lines of text without their line breaks; a line
\* break at the very end opens no further line, the empty text has no line.
splitlines(text) ==
    IF text = <<>>
    THEN <<>>
    ELSE IF FirstBreak(text) = 0
    THEN <<text>>
    ELSE <<SubSeq(text, 1, FirstBreak(text) - 1)>>
           \o splitlines(SubSeq(text, FirstBreak(text) + 1, Len(text)))

\* SidebarAd = namedtuple('SidebarAd', ['text', 'link']) called as
\* SidebarAd(*lst): two positional arguments or a TypeError.
SidebarAd(lst) ==
    IF Len(lst) = 2
    THEN [exc |-> "none", text |-> lst[1], link |-> lst[2]]
    ELSE [exc |-> "TypeError", text |-> <<>>, link |-> <<>>]

\* list(map(SidebarAd(*lst), map(str.splitlines, map(el.text, ads_text))))
get_sidebar_ads(texts) ==
    LET made == [k \in 1..Len(texts) |-> SidebarAd(splitlines(texts[k]))]
    IN  IF \E k \in 1..Len(texts) : made[k].exc # "none"
        THEN [status |-> "TypeError", list |-> <<>>]
        ELSE [status |-> "returned",
              list |-> [k \in 1..Len(texts) |->
                           <<made[k].text, made[k].link>>]]

\* Some sidebar is rendered; browse has not been advanced.
AdsInit ==
    /\ pc = "Created"
    /\ i = Unbound
    /\ scroll_fail_count = Unbound
    /\ load_fail_count = Unbound
    /\ scroll_pos = "initial"
    /\ signal = "none"
    /\ other = NoFrame
    /\ first_post = 1
    /\ ads_text \in SeqsUpTo(SeqsUpTo(Alphabet, MaxTextLen), MaxAds)
    /\ ads_result = [status |-> "not called", list |-> <<>>]
    /\ emitted = <<>>
    /\ skipped = {}
    /\ scroll_count = 0
    /\ probe_count = 0
    /\ probes_here = 0
    /\ via = <<"none", 0>>
    /\ run_emits = 0
    /\ scenario = [shape |-> "prefix", n |-> 0]
    /\ dry_scrolls = 0
    /\ record = NoRecord
    /\ seen = NoPost

\* feed.get_sidebar_ads()
GetSidebarAds ==
    /\ ads_result.status = "not called"
    /\ ads_result' = get_sidebar_ads(ads_text)
    /\ UNCHANGED <<pc, i, scroll_fail_count, load_fail_count, scroll_pos,
                   signal, other, first_post, ads_text, hist>>

AdsNext == GetSidebarAds

AdsSpec == AdsInit /\ [][AdsNext]_vars

\* ---------------------------------------------------------------- claims
Last(seq) == seq[Len(seq)]

Positions(seq) == {seq[k] : k \in 1..Len(seq)}

\* No probe has returned "found" so far.
NothingFound == scenario.shape # "mixed" /\ scenario.n = 0

\* C1: if every probe (first probes and load retries alike) returns
\* not-found, browse ends normally after exactly 10 scroll cycles, that is
\* exactly 10 scroll_to_bottom calls, and yields no record.
C1_AllNotFound ==
    /\ [](NothingFound => scroll_count <= 10 /\ emitted = <<>>)
    /\ [](pc = "Exhausted" /\ NothingFound =>
             /\ scroll_count = 10
             /\ probe_count = 110
             /\ i = 11
             /\ signal = "StopIteration")
    /\ <>(~NothingFound \/ pc = "Exhausted" \/ pc = "Aborted")

C1_Witness ==
    /\ pc = "Exhausted"
    /\ NothingFound
    /\ scroll_count = 10
    /\ emitted = <<>>

\* C2: if the positions 1..N are each found at their first probe and every
\* later probe returns not-found, browse yields exactly the records of
\* 1, 2, ..., N in that order and then ends normally, after the 10 scroll
\* cycles of the positions N+1..N+10.
C2_PrefixThenEmpty ==
    /\ [](scenario.shape # "mixed" =>
             /\ Len(emitted) = scenario.n
             /\ \A k \in 1..Len(emitted) : emitted[k] = k)
    /\ [](scenario.shape = "tail" /\ pc = "Exhausted" =>
             /\ scroll_count = 10
             /\ i = scenario.n + 11
             /\ signal = "StopIteration")
    /\ [](scenario.shape = "tail" => pc \in {"LoadBackoff", "Probing",
                                             "Exhausted"})
    /\ (scenario.shape = "tail") ~>
           (scenario.shape = "mixed" \/ pc = "Exhausted")

C2_Witness ==
    /\ pc = "Exhausted"
    /\ scenario = [shape |-> "tail", n |-> 3]
    /\ emitted = <<1, 2, 3>>

\* C3 as stated: the k-th record yielded is the record of position k, under
\* any schedule of probe results.
C3_NoGaps == \A k \in 1..Len(emitted) : emitted[k] = k

\* C3 as amended: the records are yielded in strictly increasing order of
\* position, without repeats; a position below a yielded one has no record
\* exactly when its first probe and its 10 load retries all failed.
C3_OrderedGapsOnlySkipped ==
    /\ \A k \in 1..Len(emitted) : emitted[k] >= k
    /\ \A k \in 1..(Len(emitted) - 1) : emitted[k] < emitted[k + 1]
    /\ \A s \in skipped : s[2] = 11 /\ s[1] \notin Positions(emitted)
    /\ emitted # <<>> =>
           \A p \in 1..Last(emitted) :
               p \in Positions(emitted) \/ <<p, 11>> \in skipped

C3_Witness ==
    /\ emitted = <<2, 3>>
    /\ <<1, 11>> \in skipped

\* C4: browse ends normally only after 10 consecutive scroll cycles without
\* progress: no record is yielded between the first and the last of the 10
\* scroll cycles that bring scroll_fail_count to 10.
C4_NoEmitInFinalRun == pc = "Exhausted" => run_emits = 0

\* C5: every yield resets the retry state: whether the post was found at the
\* first probe or at a load retry, scroll_fail_count and load_fail_count are
\* 0 (or not bound yet) when the next position is probed.
EmitResetsStep ==
    (pc \in {"YieldedOuter", "YieldedInner"} /\ pc' = "Probing") =>
        (scroll_fail_count' = 0 /\ load_fail_count' \in {0, Unbound})

C5_EveryEmitResets == [][EmitResetsStep]_vars

\* C6: a post found at a load retry, after k failed load retries of the
\* scroll cycle (0 <= k <= 9), is yielded; afterwards both counters are 0
\* and the position has advanced by exactly 1.
RetryHitStep ==
    /\ (pc = "LoadBackoff" /\ pc' = "YieldedInner") =>
           /\ load_fail_count \in 0..9
           /\ emitted' = Append(emitted, i)
           /\ via' = <<"retry", load_fail_count>>
           /\ i' = i
    /\ pc = "YieldedInner" =>
           /\ pc' = "Probing"
           /\ scroll_fail_count' = 0
           /\ load_fail_count' = 0
           /\ i' = i + 1
           /\ emitted' = emitted

C6_RetryHit == [][RetryHitStep]_vars

C6_Witness ==
    /\ pc = "Probing"
    /\ via = <<"retry", 9>>
    /\ scroll_fail_count = 0
    /\ load_fail_count = 0
    /\ Last(emitted) = i - 1

\* C7: running out of load retries does not end the harvest: when
\* load_fail_count reaches 10 while scroll_fail_count is below 10 the
\* generator goes on to probe the next position, and it ends normally only
\* with scroll_fail_count = 10.
LoadExhaustedStep ==
    (pc = "LoadBackoff" /\ load_fail_count' = 10 /\ scroll_fail_count' < 10)
        => pc' = "Probing"

C7_OnlyOuterCounterFatal ==
    /\ [](pc = "Exhausted" => scroll_fail_count = 10)
    /\ [][LoadExhaustedStep]_vars

C7_Witness ==
    /\ pc = "Probing"
    /\ load_fail_count = 10
    /\ scroll_fail_count \in 1..9
    /\ <<i - 1, 11>> \in skipped

\* C8: the position starts at 1, never decreases, and grows by exactly 1
\* per concluded attempt: after each yield and after each scroll cycle whose
\* 10 load retries all failed; the load retries of a scroll cycle all probe
\* the same position.
AttemptConcluded ==
    \/ pc \in {"YieldedOuter", "YieldedInner"}
    \/ (pc = "LoadBackoff" /\ load_fail_count = 9 /\ load_fail_count' = 10)

PositionStep ==
    /\ (pc = "Created" /\ pc' # "Aborted") => i' = 1
    /\ pc # "Created" =>
           /\ i' \in {i, i + 1}
           /\ (i' = i + 1) <=> AttemptConcluded
    /\ pc' \in {"LoadBackoff", "YieldedInner"} => i' = i

C8_PositionStep == [][PositionStep]_vars

C8_Witness ==
    /\ skipped # {}
    /\ emitted # <<>>
    /\ pc = "Probing"
    /\ i = Len(emitted) + Cardinality(skipped) + 1

\* C9: when the feed container is not found at the start, the harvest
\* aborts at once with a signal that is not the normal end of the sequence:
\* no record, no post lookup, no scroll_to_bottom.
C9_FeedMissingAborts ==
    /\ pc = "Aborted" =>
         /\ signal = "SystemExit"
         /\ emitted = <<>>
         /\ probe_count = 0
         /\ scroll_count = 0
         /\ i = Unbound
    /\ pc = "Exhausted" => signal = "StopIteration"
    /\ signal = "SystemExit" => pc = "Aborted"

C9_Witness ==
    /\ pc = "Aborted"
    /\ signal = "SystemExit"
    /\ scroll_pos = "top"

\* C10: a not-found post lookup never reaches the consumer: every advance
\* that made a lookup ends in a yielded record or in the normal end of the
\* sequence, the last load retry of the tenth scroll cycle included.
C10_NotFoundAbsorbed ==
    /\ signal # LookupError
    /\ pc # "Failed"
    /\ probe_count > 0 => signal \in {"none", "record", "StopIteration"}
    /\ signal = "none" => pc \in {"Created", "Probing", "LoadBackoff"}
    /\ pc = "Exhausted" => signal = "StopIteration"

C10_Witness ==
    /\ pc = "Exhausted"
    /\ signal = "StopIteration"
    /\ scroll_fail_count = 10
    /\ load_fail_count = 10
    /\ emitted # <<>>

\* The one state a generator is in between its first advance's setup and
\* its first probe.
BeforeFirstProbe == Frame("Probing", 1, 0, Unbound, "none")

\* A step that advances a generator no line of which has run (the steps
\* that create a generator or turn to the other one exchange the frames).
FreshStartStep ==
    (pc = "Created" /\ pc' # "Created" /\ other' = other) =>
        /\ scroll_pos' = "top"
        /\ pc' \in {"Probing", "Aborted"}
        /\ pc' = "Probing" => ActiveFrame' = BeforeFirstProbe

\* C11: every browse() on the same session replays from scratch: whatever
\* the generator created before left behind (position, counters, scroll
\* offset; exhausted or suspended midway), the new generator scrolls to the
\* top before its first probe and probes position 1 with scroll_fail_count
\* 0, in the very state a first harvest is in before its first probe.
C11_IndependentReplay ==
    /\ [](pc = "Created" => ActiveFrame = FreshFrame)
    /\ [](other.pc = "Created" => other = FreshFrame)
    /\ [](pc = "Probing" /\ i = 1 =>
             ActiveFrame = BeforeFirstProbe /\ scroll_pos = "top")
    /\ [][FreshStartStep]_vars

C11_Witness ==
    /\ ActiveFrame = BeforeFirstProbe
    /\ scroll_pos = "top"
    /\ other.pc = "YieldedInner"
    /\ other.i = 2
    /\ other.scroll_fail_count = 2

\* C12: get_sidebar_ads never fails: whatever the rendered ad elements and
\* however many lines the text of each holds, it returns one (text, link)
\* pair per element, and the empty list when no ad element is rendered.
C12_AdsNeverFail ==
    ads_result.status # "not called" =>
        /\ ads_result.status = "returned"
        /\ Len(ads_result.list) = Len(ads_text)

FoundStep == seen'.found /\ seen' # seen

FieldFailureStep ==
    FoundStep =>
        /\ pc' \in {"YieldedOuter", "YieldedInner"}
        /\ scroll_fail_count' = scroll_fail_count
        /\ load_fail_count' = load_fail_count
        /\ scroll_count' = scroll_count
        /\ scroll_pos' = scroll_pos
        /\ i' = i

\* C13: a field that cannot be extracted is not a post that cannot be
\* found: when the post element of the current position is found and the
\* extractor of a requested field fails, the record is yielded all the same,
\* without that field (author absent, text present: a record with text
\* only); scroll_fail_count is not incremented and no scroll or load retry
\* is started.
C13_FieldUnavailable ==
    /\ [](seen.found =>
             /\ pc \in {"YieldedOuter", "YieldedInner"}
             /\ signal = "record"
             /\ record = [present |-> TRUE,
                          fields |-> RequestedFields \cap seen.available]
             /\ Last(emitted) = i)
    /\ [][FieldFailureStep]_vars

C13_Witness ==
    /\ pc = "YieldedOuter"
    /\ seen = [found |-> TRUE, available |-> {"text"}]
    /\ record = [present |-> TRUE, fields |-> {"text"}]
    /\ scroll_fail_count = 0
    /\ scroll_count = 0

TenthCycleStep ==
    /\ (scroll_fail_count = 9 /\ scroll_fail_count' = 10) =>
           /\ pc' = "LoadBackoff"
           /\ scroll_count' = scroll_count + 1
           /\ scroll_pos' = "bottom"
           /\ load_fail_count' = 0
    /\ (scroll_fail_count = 10 /\ pc = "LoadBackoff") =>
           /\ probe_count' = probe_count + 1
           /\ pc' \in {"LoadBackoff", "YieldedInner", "Exhausted"}
           /\ pc' = "Exhausted" <=> load_fail_count' = 10
           /\ pc' = "YieldedInner" <=> seen'.found
    /\ (scroll_fail_count = 10 /\ pc = "YieldedInner") =>
           /\ pc' = "Probing"
           /\ scroll_fail_count' = 0
           /\ load_fail_count' = 0
    /\ pc # "Exhausted"

C15_NoHangWithoutProgress ==
    /\ [](scroll_fail_count # Unbound =>
             /\ dry_scrolls <= scroll_fail_count
             /\ scroll_fail_count <= 10
             /\ dry_scrolls = 10 =>
                    pc \in {"LoadBackoff", "Exhausted"})
    /\ <>[](~seen.found) => <>(pc \in {"Exhausted", "Aborted"})
    /\ (pc = "LoadBackoff" /\ dry_scrolls = 10) ~>
           (seen.found \/ pc = "Exhausted")

C15_Witness ==
    /\ pc = "Exhausted"
    /\ dry_scrolls = 10
    /\ via[1] = "retry"
    /\ emitted # <<>>

FailedFirstProbe == pc = "Probing" /\ pc' = "LoadBackoff" /\ ~seen'.found

ProbeBudgetStep ==
    /\ scroll_count' \in {scroll_count, scroll_count + 1}
    /\ (scroll_count' = scroll_count + 1) <=> FailedFirstProbe
    /\ probe_count' # probe_count =>
           /\ probe_count' = probe_count + 1
           /\ pc \in {"Probing", "LoadBackoff"}
           /\ i \notin {s[1] : s \in skipped}
           /\ i \notin Positions(emitted)
    /\ pc # "Created" => i' >= i

\* C16: the generator cannot spin on one position: a position is probed at
\* most 11 times (its first probe and at most 10 load retries of one scroll
\* cycle), a failed first probe is followed by exactly one scroll_to_bottom,
\* and a position whose 11 probes all failed is neither probed nor yielded
\* later, whether or not its element shows up afterwards.
C16_BoundedProbesPerPosition ==
    /\ [](/\ probes_here <= 11
          /\ pc = "Probing" => probes_here = 0
          /\ pc = "LoadBackoff" => probes_here = 1 + load_fail_count
          /\ \A s \in skipped :
                 /\ s[2] = 11
                 /\ s[1] < i
                 /\ s[1] \notin Positions(emitted))
    /\ [][ProbeBudgetStep]_vars

C16_Witness ==
    /\ first_post = 1
    /\ skipped = {<<1, 11>>}
    /\ probe_count = 11
    /\ scroll_count = 1
    /\ pc = "Probing"
    /\ i = 2

InterleaveStep ==
    /\ \/ other' = other
       \/ /\ other' = ActiveFrame
          /\ ActiveFrame' \in {other, FreshFrame}
          /\ scroll_pos' = scroll_pos
    /\ (pc = "Created" /\ pc' = "Probing" /\ other' = other) =>
           scroll_pos' = "top"
    /\ scroll_pos' # scroll_pos =>
           /\ other' = other
           /\ pc \in {"Created", "Probing"}

\* C17: with two browse generators of one session advanced in turn, a step
\* of one never changes the position, scroll_fail_count or load_fail_count of
\* the other: a suspended generator is resumed with the locals it was
\* suspended with.  They meet only in the scroll position of the session,
\* which the first advance of a new generator puts back to the top even
\* while the other one is in the middle of its harvest.
C17_OnlyScrollShared ==
    /\ [](other.pc \in {"NoFrame", "Created", "YieldedOuter",
                        "YieldedInner", "Exhausted", "Aborted"})
    /\ [][InterleaveStep]_vars

C17_Witness ==
    /\ pc = "YieldedInner"
    /\ scroll_fail_count = 2
    /\ i = 2
    /\ scroll_pos = "top"
    /\ other.pc = "YieldedOuter"
    /\ other.i = 1

====
